---- MODULE Spec2Model ----
(***************************************************************************)
(* Model of the duration_utils crate: the hours/minutes/seconds            *)
(* constructors, the ISO 8601 codec (to_iso8601 / from_iso8601) and the    *)
(* serde adapters built on it.                                             *)
(*                                                                         *)
(* Every function of the crate is pure and the crate keeps no state, so a  *)
(* behaviour of the model is one call, followed for a round trip by the    *)
(* call that takes its result.  The state records which function was       *)
(* called (op), its input and its result.                                  *)
(* Texts are sequences of one-character strings.                           *)
(*                                                                         *)
(* Numbers.  The codec computes in f64.  Every whole number the model      *)
(* reaches is far below 2^53, where f64 arithmetic on whole numbers is     *)
(* exact, so whole seconds are modelled as integers.  A decimal fraction   *)
(* of the seconds field is carried as its exact value in nanoseconds; the  *)
(* f64 rounding of a non-zero fraction is not modelled.  to_iso8601 is     *)
(* modelled for whole-second durations only.  The constructors compute in  *)
(* u32; u32 values are modelled as two 16-bit limbs so that the            *)
(* wrap-around at 2^32 is part of the model.                               *)
(***************************************************************************)
EXTENDS Integers, Sequences, FiniteSets

(* ------------------------------ bounds --------------------------------- *)

\* longest arbitrary text handed to from_iso8601
MaxTextLen == 4
\* field values 0..MaxField (plus a few fixed larger ones) in composed texts
MaxField == 1
\* day counts 0..MaxDays (plus a fixed larger one) of formatted durations
MaxDays == 1

(* --------------------------- characters -------------------------------- *)

DigitChars == <<"0", "1", "2", "3", "4", "5", "6", "7", "8", "9">>

\* the character class [0-9]
Digit == {DigitChars[i] : i \in 1..10}

DigitVal(c) == (CHOOSE i \in 1..10 : DigitChars[i] = c) - 1

\* the character class [-+]
IsSign(c) == c \in {"-", "+"}

\* i64::to_string, and f64::to_string of a whole value
RECURSIVE IntToStr(_)
IntToStr(n) ==
  IF n < 0 THEN <<"-">> \o IntToStr(0 - n)
  ELSE IF n < 10 THEN <<DigitChars[n + 1]>>
  ELSE IntToStr(n \div 10) \o <<DigitChars[(n % 10) + 1]>>

RECURSIVE Pow10(_)
Pow10(k) == IF k = 0 THEN 1 ELSE 10 * Pow10(k - 1)

\* value of a run of decimal digits
RECURSIVE DigitsToNat(_)
DigitsToNat(s) ==
  IF s = <<>> THEN 0
  ELSE 10 * DigitsToNat(SubSeq(s, 1, Len(s) - 1)) + DigitVal(s[Len(s)])

\* str::parse::<f64> on a captured field: [-+]?[0-9]* ; the empty string is
\* an error, every other captured string parses to a whole number
parse_f64(s) ==
  IF s = <<>> THEN [ok |-> FALSE, val |-> 0]
  ELSE IF s[1] = "-" THEN [ok |-> Len(s) > 1, val |-> 0 - DigitsToNat(Tail(s))]
  ELSE IF s[1] = "+" THEN [ok |-> Len(s) > 1, val |-> DigitsToNat(Tail(s))]
  ELSE [ok |-> TRUE, val |-> DigitsToNat(s)]

(* ------------------------- results of calls ---------------------------- *)

\* std::time::Duration: whole seconds and nanoseconds
Dur(secs, nanos) == [secs |-> secs, nanos |-> nanos]

\* Option<Duration>, and the third outcome of a call: a panic
Some(d) == [kind |-> "Some", dur |-> d]
None == [kind |-> "None", dur |-> Dur(0, 0)]
Panic == [kind |-> "Panic", dur |-> Dur(0, 0)]

(* ---------------------- the pattern of from_iso8601 -------------------- *)
(* ([-+]?)P(?:([-+]?[0-9]+)D)?                                             *)
(*   (T(?:([-+]?[0-9]+)H)?(?:([-+]?[0-9]+)M)?                              *)
(*     (?:([-+]?[0-9]+)(?:[.,]([0-9]{0,9}))?S)?)?                          *)
(* The pattern is not anchored: Regex::captures returns the leftmost       *)
(* match, and every optional group is greedy.  After P everything is       *)
(* optional, so an optional group takes part exactly when it can match at  *)
(* the position reached.                                                   *)

NoGroup == [some |-> FALSE, str |-> <<>>]
Group(s) == [some |-> TRUE, str |-> s]

\* first position at or after i that holds no digit
RECURSIVE DigitsEnd(_, _)
DigitsEnd(v, i) ==
  IF i <= Len(v) /\ v[i] \in Digit THEN DigitsEnd(v, i + 1) ELSE i

\* position of the first P, 0 when there is none
FirstP(v) ==
  IF \E i \in 1..Len(v) : v[i] = "P"
  THEN CHOOSE i \in 1..Len(v) : v[i] = "P" /\ \A j \in 1..(i - 1) : v[j] # "P"
  ELSE 0

\* (?:([-+]?[0-9]+)U)? tried at position i
IntField(v, i, unit) ==
  LET k == IF i <= Len(v) /\ IsSign(v[i]) THEN i + 1 ELSE i
      e == DigitsEnd(v, k)
  IN IF e > k /\ e <= Len(v) /\ v[e] = unit
     THEN [ok |-> TRUE, num |-> SubSeq(v, i, e - 1), next |-> e + 1]
     ELSE [ok |-> FALSE, num |-> <<>>, next |-> i]

\* (?:([-+]?[0-9]+)(?:[.,]([0-9]{0,9}))?S)? tried at position i
SecField(v, i) ==
  LET k == IF i <= Len(v) /\ IsSign(v[i]) THEN i + 1 ELSE i
      e == DigitsEnd(v, k)
      fe == DigitsEnd(v, e + 1)
      fail == [ok |-> FALSE, num |-> <<>>, frac |-> NoGroup, next |-> i]
  IN IF ~(e > k /\ e <= Len(v)) THEN fail
     ELSE IF v[e] = "S"
       THEN [ok |-> TRUE, num |-> SubSeq(v, i, e - 1), frac |-> NoGroup,
             next |-> e + 1]
     ELSE IF v[e] \in {".", ","} /\ fe - (e + 1) <= 9
             /\ fe <= Len(v) /\ v[fe] = "S"
       THEN [ok |-> TRUE, num |-> SubSeq(v, i, e - 1),
             frac |-> Group(SubSeq(v, e + 1, fe - 1)), next |-> fe + 1]
     ELSE fail

NoCaps ==
  [matched |-> FALSE, first |-> 0, last |-> 0,
   g1 |-> NoGroup, g2 |-> NoGroup, g3 |-> NoGroup, g4 |-> NoGroup,
   g5 |-> NoGroup, g6 |-> NoGroup, g7 |-> NoGroup]

\* the capture groups 1..7 of a match whose P stands at position p, and the
\* positions first..last of the text the match covers; D, H, M and S are
\* the attempts at the four components, and the T block takes part when a T
\* follows the D component
captures_of(v, p, D, H, M, S) ==
  [matched |-> TRUE,
   first |-> IF p > 1 /\ IsSign(v[p - 1]) THEN p - 1 ELSE p,
   last |-> IF D.next <= Len(v) /\ v[D.next] = "T" THEN S.next - 1
            ELSE D.next - 1,
   g1 |-> Group(IF p > 1 /\ IsSign(v[p - 1]) THEN <<v[p - 1]>> ELSE <<>>),
   g2 |-> IF D.ok THEN Group(D.num) ELSE NoGroup,
   g3 |-> IF D.next <= Len(v) /\ v[D.next] = "T"
          THEN Group(SubSeq(v, D.next, S.next - 1)) ELSE NoGroup,
   g4 |-> IF D.next <= Len(v) /\ v[D.next] = "T" /\ H.ok
          THEN Group(H.num) ELSE NoGroup,
   g5 |-> IF D.next <= Len(v) /\ v[D.next] = "T" /\ M.ok
          THEN Group(M.num) ELSE NoGroup,
   g6 |-> IF D.next <= Len(v) /\ v[D.next] = "T" /\ S.ok
          THEN Group(S.num) ELSE NoGroup,
   g7 |-> IF D.next <= Len(v) /\ v[D.next] = "T" /\ S.ok
          THEN S.frac ELSE NoGroup]

\* the S component is tried where the M component ended
scan_seconds(v, p, D, H, M) == captures_of(v, p, D, H, M, SecField(v, M.next))

\* the M component is tried where the H component ended
scan_minutes(v, p, D, H) == scan_seconds(v, p, D, H, IntField(v, H.next, "M"))

\* the H component is tried after the T that follows the D component
scan_hours(v, p, D) == scan_minutes(v, p, D, IntField(v, D.next + 1, "H"))

\* the D component is tried after the P
scan_days(v, p) == scan_hours(v, p, IntField(v, p + 1, "D"))

\* pattern.captures(value): the leftmost match starts at the first P of the
\* text, or at a sign right before it
pattern_captures(v) == IF FirstP(v) = 0 THEN NoCaps ELSE scan_days(v, FirstP(v))

(* ----------------------------- from_iso8601 ---------------------------- *)

\* variant: a bare T is let through when a D component precedes it
t_not_bare_unless_days(caps) ==
  (~caps.g3.some) \/ caps.g3.str # <<"T">> \/ caps.g2.some

\* caps.get(3).map_or(true, |t| t.as_str() != "T")
t_not_bare(caps) == (~caps.g3.some) \/ caps.g3.str # <<"T">>

\* a parsed field times its scale
scaled(r, scale) == [ok |-> r.ok, val |-> r.val * scale]

\* caps.get(n) parsed and scaled; .unwrap() panics when ok is FALSE
secs_in(group, scale) ==
  IF group.some THEN scaled(parse_f64(group.str), scale)
  ELSE [ok |-> TRUE, val |-> 0]

secs_in_d(caps) == secs_in(caps.g2, 86400)

\* variant: hours scaled as minutes
secs_in_h_as_minutes(caps) == secs_in(caps.g4, 60)

secs_in_h(caps) == secs_in(caps.g4, 3600)

secs_in_m(caps) == secs_in(caps.g5, 60)

secs_in_s(caps) == secs_in(caps.g6, 1)

\* the fraction digits divided by 10^(their count), in nanoseconds
secs_in_f(caps) ==
  IF caps.g7.some
  THEN scaled(parse_f64(caps.g7.str), Pow10(9 - Len(caps.g7.str)))
  ELSE [ok |-> TRUE, val |-> 0]

\* Duration::from_secs_f64 of whole + nanos/10^9, with 0 <= nanos < 10^9:
\* it panics on a negative value (and on one too large for a Duration,
\* which no text within the bounds of the model reaches)
from_secs_f64(whole, nanos) ==
  IF whole < 0 THEN Panic ELSE Some(Dur(whole, nanos))

\* every .unwrap() of a parsed field succeeds
fields_ok(caps) ==
  /\ secs_in_d(caps).ok /\ secs_in_h(caps).ok /\ secs_in_m(caps).ok
  /\ secs_in_s(caps).ok /\ secs_in_f(caps).ok

\* variant: the overall sign captured in group 1 negates the total
whole_secs_negating(caps) ==
  IF caps.g1.str = <<"-">>
  THEN 0 - (secs_in_d(caps).val + secs_in_h(caps).val + secs_in_m(caps).val
            + secs_in_s(caps).val)
  ELSE secs_in_d(caps).val + secs_in_h(caps).val + secs_in_m(caps).val
       + secs_in_s(caps).val

\* secs_in_d + secs_in_h + secs_in_m + secs_in_s; _negate is not used
whole_secs(caps) ==
  secs_in_d(caps).val + secs_in_h(caps).val + secs_in_m(caps).val
  + secs_in_s(caps).val

\* the body of from_iso8601 once the pattern has been tried
from_captures(caps) ==
  IF caps.matched
  THEN IF t_not_bare(caps)
       THEN IF fields_ok(caps)
            THEN from_secs_f64(whole_secs(caps), secs_in_f(caps).val)
            ELSE Panic
       ELSE None
  ELSE None

from_iso8601(value) == from_captures(pattern_captures(value))

(* ------------------------------ to_iso8601 ----------------------------- *)

\* the day, hour and minute counts and the remaining seconds of to_iso8601
iso_d(secs) == secs \div 86400

\* variant: the hours are not reduced modulo a day
iso_h_of_total(secs) == secs \div 3600

iso_h(secs) == (secs % 86400) \div 3600

iso_n(secs) == (secs % 3600) \div 60

iso_secs(secs) == secs % 60

\* to_iso8601 of a duration of a whole number of seconds
to_iso8601(duration) ==
  LET secs == duration.secs
      d == iso_d(secs)
      h == iso_h(secs)
      n == iso_n(secs)
      r == iso_secs(secs)
  IN IF secs = 0 THEN <<"P", "T", "0", "S">>
     ELSE <<"P">>
          \o (IF d # 0 THEN IntToStr(d) \o <<"D">> ELSE <<>>)
          \o (IF h # 0 \/ n # 0 \/ r # 0 THEN <<"T">> ELSE <<>>)
          \o (IF h # 0 THEN IntToStr(h) \o <<"H">> ELSE <<>>)
          \o (IF n # 0 THEN IntToStr(n) \o <<"M">> ELSE <<>>)
          \o (IF r # 0 THEN IntToStr(r) \o <<"S">> ELSE <<>>)

(* ------------------------------ u32 arithmetic ------------------------- *)
(* A u32 is [hi, lo] with value hi * 2^16 + lo.  An operation returns the  *)
(* wrapped result and whether the true result left the u32 range.          *)

Limb == 256 * 256

U32(hi, lo) == [hi |-> hi, lo |-> lo]

\* x * k for a constant k < 2^15
mul_u32(x, k) ==
  LET t == x.lo * k
      h == x.hi * k + (t \div Limb)
  IN [val |-> U32(h % Limb, t % Limb), ovf |-> h >= Limb]

\* x + n for n < 2^16
add_u32(x, n) ==
  LET t == x.lo + n
      h == x.hi + (t \div Limb)
  IN [val |-> U32(h % Limb, t % Limb), ovf |-> h >= Limb]

\* the u32 expression h * 3600 + m * 60 + s, for m and s below 60
hms_secs(h, m, s) ==
  LET a == mul_u32(h, 3600)
      b == add_u32(a.val, m * 60)
      c == add_u32(b.val, s)
  IN [val |-> c.val, ovf |-> a.ovf \/ b.ovf \/ c.ovf]

(* --------------------------------- state ------------------------------- *)

VARIABLES
  overflow_checks, \* the build panics on integer overflow (TRUE) or wraps
  op,              \* the function called last
  hms,             \* arguments of a constructor call
  dur,             \* Option<Duration> handed to to_iso8601 or a serializer
  text,            \* text handed to from_iso8601
  form,            \* how a composed text was put together
  value,           \* serde value handed to a deserializer
  out              \* result of the call

vars == <<overflow_checks, op, hms, dur, text, form, value, out>>

(* ------------------------------ constructors --------------------------- *)

VALID_SECS == 0..59

\* Duration::from_secs / Duration::new on the u32 sum cast to u64; the sum
\* panics on overflow in a build with overflow checks and wraps otherwise
new_duration(sum, nanos) ==
  IF sum.ovf /\ overflow_checks THEN Panic ELSE Some(Dur(sum.val, nanos))

\* Option::unwrap
unwrap(o) == IF o.kind = "None" THEN Panic ELSE o

from_hms_opt(h, m, s) ==
  IF s \in VALID_SECS /\ m \in VALID_SECS
  THEN new_duration(hms_secs(h, m, s), 0)
  ELSE None

from_hms(h, m, s) == unwrap(from_hms_opt(h, m, s))

from_hms_milli_opt(h, m, s, milli) ==
  IF s \in VALID_SECS /\ m \in VALID_SECS /\ milli \in 0..999
  THEN new_duration(hms_secs(h, m, s), milli * 1000000)
  ELSE None

from_hms_milli(h, m, s, milli) == unwrap(from_hms_milli_opt(h, m, s, milli))

from_hms_micro_opt(h, m, s, micro) ==
  IF s \in VALID_SECS /\ m \in VALID_SECS /\ micro \in 0..999999
  THEN new_duration(hms_secs(h, m, s), micro * 1000)
  ELSE None

from_hms_micro(h, m, s, micro) == unwrap(from_hms_micro_opt(h, m, s, micro))

from_hms_nano_opt(h, m, s, nano) ==
  IF s \in VALID_SECS /\ m \in VALID_SECS /\ nano \in 0..999999999
  THEN new_duration(hms_secs(h, m, s), nano)
  ELSE None

from_hms_nano(h, m, s, nano) == unwrap(from_hms_nano_opt(h, m, s, nano))

(* ------------------------------ serde adapters ------------------------- *)
(* The serializer and the deserializer are those of a self-describing      *)
(* format such as JSON: a value is null, a text, or something else.        *)

Null == [type |-> "null", str |-> <<>>]
Str(t) == [type |-> "str", str |-> t]
Other == [type |-> "other", str |-> <<>>]

Ok(x) == [kind |-> "Ok", val |-> x]
Err(e) == [kind |-> "Err", err |-> e]
Panicked == [kind |-> "Panic"]

\* the expected pattern named in the errors
Expected == <<"P", "d", "D", "T", "h", "H", "m", "M", "s", "S">>

\* D::Error::invalid_value(Unexpected::Str(&value), &"PdDThHmMsS")
invalid_value(v) ==
  [type |-> "invalid_value", unexpected |-> v, expected |-> Expected]

invalid_type == [type |-> "invalid_type", unexpected |-> <<>>, expected |-> <<>>]

\* String::deserialize(deserializer)
string_deserialize(v) ==
  IF v.type = "str" THEN Ok(v.str) ELSE Err(invalid_type)

\* Option::ok_or / ok_or_else with the invalid-value error for the text v
ok_or_invalid(r, v) ==
  IF r.kind = "Some" THEN Ok(r.dur)
  ELSE IF r.kind = "None" THEN Err(invalid_value(v))
  ELSE Panicked

\* the rest of a deserializer after `String::deserialize(deserializer)?`
parse_string(r) ==
  IF r.kind = "Ok" THEN ok_or_invalid(from_iso8601(r.val), r.val) ELSE r

\* lib.rs
serialize(duration) == Ok(Str(to_iso8601(duration)))

deserialize(v) == parse_string(string_deserialize(v))

\* direct_serde.rs
direct_serde_serialize(duration) == Ok(Str(to_iso8601(duration)))

direct_serde_deserialize(v) == parse_string(string_deserialize(v))

\* serde_as.rs, DurationWrapper for std::time::Duration
serialize_as(duration) == Ok(Str(to_iso8601(duration)))

deserialize_as(v) == parse_string(string_deserialize(v))

\* opt.rs: serialize_some(&DurationWrapper(d)) / serialize_none()
opt_serialize(o) ==
  IF o.kind = "Some" THEN direct_serde_serialize(o.dur) ELSE Ok(Null)

\* variant: an error is read as None
some_of_lenient(r) ==
  IF r.kind = "Ok" THEN Ok(Some(r.val))
  ELSE IF r.kind = "Err" THEN Ok(None)
  ELSE r

\* Result::map(|opt| opt.map(...)) on the wrapped duration
some_of(r) == IF r.kind = "Ok" THEN Ok(Some(r.val)) ELSE r

\* opt.rs: Option::<DurationWrapper>::deserialize, unwrapped
opt_deserialize(v) ==
  IF v.type = "null" THEN Ok(None) ELSE some_of(direct_serde_deserialize(v))

(* --------------------------------- inputs ------------------------------ *)

\* characters of the arbitrary texts
Alphabet == {"P", "T", "D", "S", "-", ".", "1", "x"}

RECURSIVE TextsOfLen(_)
TextsOfLen(n) ==
  IF n = 0 THEN {<<>>}
  ELSE {Append(t, c) : t \in TextsOfLen(n - 1), c \in Alphabet}

Texts == UNION {TextsOfLen(n) : n \in 0..MaxTextLen}

\* a field of a composed text: absent, or a sign and a value
NoField == [some |-> FALSE, sgn |-> <<>>, n |-> 0]
Field(sgn, n) == [some |-> TRUE, sgn |-> sgn, n |-> n]

FieldVals == (0..MaxField) \cup {61}

Fields ==
  {NoField} \cup {Field(<<>>, n) : n \in FieldVals}
            \cup {Field(<<"-">>, 1), Field(<<"+">>, 2)}

\* the fraction of the seconds field: absent, or a separator and digits
NoFrac == [some |-> FALSE, sep |-> ".", digits |-> <<>>]
Frac(sep, digits) == [some |-> TRUE, sep |-> sep, digits |-> digits]

Fracs ==
  {NoFrac, Frac(".", <<>>), Frac(".", <<"5">>), Frac(",", <<"2", "5">>),
   Frac(".", <<"0", "0">>),
   Frac(".", <<"0", "0", "0", "0", "0", "0", "0", "0", "0", "1">>)}

FieldText(f, unit) ==
  IF f.some THEN f.sgn \o IntToStr(f.n) \o <<unit>> ELSE <<>>

SecText(f, fr) ==
  IF f.some
  THEN f.sgn \o IntToStr(f.n)
       \o (IF fr.some THEN <<fr.sep>> \o fr.digits ELSE <<>>) \o <<"S">>
  ELSE <<>>

NoForm ==
  [pre |-> <<>>, sign |-> <<>>, d |-> NoField, t |-> FALSE, h |-> NoField,
   m |-> NoField, s |-> NoField, f |-> NoFrac, post |-> <<>>]

\* the text a form stands for
FormText(fm) ==
  fm.pre \o fm.sign \o <<"P">> \o FieldText(fm.d, "D")
  \o (IF fm.t
      THEN <<"T">> \o FieldText(fm.h, "H") \o FieldText(fm.m, "M")
           \o SecText(fm.s, fm.f)
      ELSE <<>>)
  \o fm.post

\* text around the duration: none, before it, or after it
Junk == {<<<<>>, <<>>>>, <<<<"x">>, <<>>>>, <<<<>>, <<"x">>>>}

\* whole-second durations handed to to_iso8601 and to the serializers
DurationSecs ==
  {d * 86400 + h * 3600 + m * 60 + s :
     d \in (0..MaxDays) \cup {11}, h \in {0, 1, 13, 23},
     m \in {0, 1, 46, 59}, s \in {0, 1, 10, 40, 59}}

\* u32 hour counts: small ones, and ones around the largest h for which
\* h * 3600 fits 32 bits (1193046 = 18 * 2^16 + 13398)
HourArgs ==
  {U32(hi, lo) : hi \in {0, 18, Limb - 1},
                 lo \in (0..MaxField) \cup {13398, 13399, Limb - 1}}

MinSecArgs == (0..MaxField) \cup {30, 59, 60, 61}

MilliArgs == {0, 50, 999, 1000, 1500}

MicroArgs == {0, 50, 999999, 1000000, 1500000}

NanoArgs == {0, 50, 999999999, 1000000000, 1500000000}

(* --------------------------------- actions ----------------------------- *)

NoArgs == [h |-> U32(0, 0), m |-> 0, s |-> 0, sub |-> 0]

Init ==
  /\ overflow_checks \in BOOLEAN
  /\ op = "none"
  /\ hms = NoArgs
  /\ dur = None
  /\ text = <<>>
  /\ form = NoForm
  /\ value = Null
  /\ out = None

\* a call that takes hours, minutes, seconds (and a sub-second count)
Constructed(name, h, m, s, sub, result) ==
  /\ op' = name
  /\ hms' = [h |-> h, m |-> m, s |-> s, sub |-> sub]
  /\ out' = result
  /\ dur' = None /\ text' = <<>> /\ form' = NoForm /\ value' = Null
  /\ UNCHANGED overflow_checks

Call_from_hms_opt ==
  /\ op = "none"
  /\ \E h \in HourArgs, m \in MinSecArgs, s \in MinSecArgs :
    Constructed("from_hms_opt", h, m, s, 0, from_hms_opt(h, m, s))

Call_from_hms ==
  /\ op = "none"
  /\ \E h \in HourArgs, m \in MinSecArgs, s \in MinSecArgs :
    Constructed("from_hms", h, m, s, 0, from_hms(h, m, s))

Call_from_hms_milli_opt ==
  /\ op = "none"
  /\ \E h \in HourArgs, m \in MinSecArgs, s \in MinSecArgs, x \in MilliArgs :
    Constructed("from_hms_milli_opt", h, m, s, x, from_hms_milli_opt(h, m, s, x))

Call_from_hms_milli ==
  /\ op = "none"
  /\ \E h \in HourArgs, m \in MinSecArgs, s \in MinSecArgs, x \in MilliArgs :
    Constructed("from_hms_milli", h, m, s, x, from_hms_milli(h, m, s, x))

Call_from_hms_micro_opt ==
  /\ op = "none"
  /\ \E h \in HourArgs, m \in MinSecArgs, s \in MinSecArgs, x \in MicroArgs :
    Constructed("from_hms_micro_opt", h, m, s, x, from_hms_micro_opt(h, m, s, x))

Call_from_hms_micro ==
  /\ op = "none"
  /\ \E h \in HourArgs, m \in MinSecArgs, s \in MinSecArgs, x \in MicroArgs :
    Constructed("from_hms_micro", h, m, s, x, from_hms_micro(h, m, s, x))

Call_from_hms_nano_opt ==
  /\ op = "none"
  /\ \E h \in HourArgs, m \in MinSecArgs, s \in MinSecArgs, x \in NanoArgs :
    Constructed("from_hms_nano_opt", h, m, s, x, from_hms_nano_opt(h, m, s, x))

Call_from_hms_nano ==
  /\ op = "none"
  /\ \E h \in HourArgs, m \in MinSecArgs, s \in MinSecArgs, x \in NanoArgs :
    Constructed("from_hms_nano", h, m, s, x, from_hms_nano(h, m, s, x))

\* to_iso8601(&Duration::from_secs(n))
Call_to_iso8601 ==
  /\ op = "none"
  /\ \E n \in DurationSecs :
    /\ op' = "to_iso8601"
    /\ dur' = Some(Dur(n, 0))
    /\ out' = to_iso8601(Dur(n, 0))
    /\ hms' = NoArgs /\ text' = <<>> /\ form' = NoForm /\ value' = Null
    /\ UNCHANGED overflow_checks

\* from_iso8601 of the text to_iso8601 has just returned
Call_from_iso8601_of_output ==
  /\ op = "to_iso8601"
  /\ op' = "round_trip"
  /\ text' = out
  /\ out' = from_iso8601(out)
  /\ UNCHANGED <<overflow_checks, hms, dur, form, value>>

\* from_iso8601 of an arbitrary text
Call_from_iso8601 ==
  /\ op = "none"
  /\ \E v \in Texts :
    /\ op' = "from_iso8601"
    /\ text' = v
    /\ out' = from_iso8601(v)
    /\ hms' = NoArgs /\ dur' = None /\ form' = NoForm /\ value' = Null
    /\ UNCHANGED overflow_checks

\* from_iso8601 of a text put together from a sign, fields and unit letters
Call_from_iso8601_composed ==
  /\ op = "none"
  /\ \E j \in Junk, sg \in {<<>>, <<"+">>, <<"-">>}, d \in Fields, t \in BOOLEAN,
     h \in Fields, m \in Fields, s \in Fields, f \in Fracs :
    LET fm == [pre |-> j[1], sign |-> sg, d |-> d, t |-> t, h |-> h, m |-> m,
               s |-> s, f |-> f, post |-> j[2]]
    IN /\ t \/ (h = NoField /\ m = NoField /\ s = NoField)
       /\ s.some \/ f = NoFrac
       /\ op' = "from_iso8601_composed"
       /\ form' = fm
       /\ text' = FormText(fm)
       /\ out' = from_iso8601(FormText(fm))
       /\ hms' = NoArgs /\ dur' = None /\ value' = Null
       /\ UNCHANGED overflow_checks

\* a serializer called on a duration (or an optional duration)
Serialized(name, o, result) ==
  /\ op' = name
  /\ dur' = o
  /\ out' = result
  /\ hms' = NoArgs /\ text' = <<>> /\ form' = NoForm /\ value' = Null
  /\ UNCHANGED overflow_checks

\* a deserializer called on a serde value
Deserialized(name, v, result) ==
  /\ op' = name
  /\ value' = v
  /\ out' = result
  /\ hms' = NoArgs /\ dur' = None /\ text' = <<>> /\ form' = NoForm
  /\ UNCHANGED overflow_checks

Values == {Null, Other} \cup {Str(t) : t \in Texts}

Call_serialize ==
  /\ op = "none"
  /\ \E n \in DurationSecs :
    Serialized("serialize", Some(Dur(n, 0)), serialize(Dur(n, 0)))

Call_direct_serde_serialize ==
  /\ op = "none"
  /\ \E n \in DurationSecs :
    Serialized("direct_serde::serialize", Some(Dur(n, 0)),
               direct_serde_serialize(Dur(n, 0)))

Call_serialize_as ==
  /\ op = "none"
  /\ \E n \in DurationSecs :
    Serialized("serialize_as", Some(Dur(n, 0)), serialize_as(Dur(n, 0)))

Call_opt_serialize ==
  /\ op = "none"
  /\ \E o \in {None} \cup {Some(Dur(n, 0)) : n \in DurationSecs} :
    Serialized("opt::serialize", o, opt_serialize(o))

Call_deserialize ==
  /\ op = "none"
  /\ \E v \in Values : Deserialized("deserialize", v, deserialize(v))

Call_direct_serde_deserialize ==
  /\ op = "none"
  /\ \E v \in Values :
    Deserialized("direct_serde::deserialize", v, direct_serde_deserialize(v))

Call_deserialize_as ==
  /\ op = "none"
  /\ \E v \in Values : Deserialized("deserialize_as", v, deserialize_as(v))

Call_opt_deserialize ==
  /\ op = "none"
  /\ \E v \in Values : Deserialized("opt::deserialize", v, opt_deserialize(v))

\* opt::deserialize of the value opt::serialize has just returned
Call_opt_deserialize_of_output ==
  /\ op = "opt::serialize"
  /\ out.kind = "Ok"
  /\ op' = "opt::round_trip"
  /\ value' = out.val
  /\ out' = opt_deserialize(out.val)
  /\ UNCHANGED <<overflow_checks, hms, dur, text, form>>

Next ==
  \/ Call_from_hms_opt
  \/ Call_from_hms
  \/ Call_from_hms_milli_opt
  \/ Call_from_hms_milli
  \/ Call_from_hms_micro_opt
  \/ Call_from_hms_micro
  \/ Call_from_hms_nano_opt
  \/ Call_from_hms_nano
  \/ Call_to_iso8601
  \/ Call_from_iso8601_of_output
  \/ Call_from_iso8601
  \/ Call_from_iso8601_composed
  \/ Call_serialize
  \/ Call_direct_serde_serialize
  \/ Call_serialize_as
  \/ Call_opt_serialize
  \/ Call_deserialize
  \/ Call_direct_serde_deserialize
  \/ Call_deserialize_as
  \/ Call_opt_deserialize
  \/ Call_opt_deserialize_of_output

Spec == Init /\ [][Next]_vars

(* ------------------------------- properties ---------------------------- *)

ParseOps == {"from_iso8601", "from_iso8601_composed", "round_trip"}

\* C1: for a duration of a whole number of seconds, from_iso8601 of the text
\* to_iso8601 returns is present and equal to that duration.
Thm_C1_RoundTrip == op = "round_trip" => out = dur

\* a whole number of days goes through "P1D", with no T block at all
Wit_C1_RoundTrip ==
  /\ op = "round_trip"
  /\ text = <<"P", "1", "D">>
  /\ out = Some(Dur(86400, 0))

\* C2: to_iso8601 of N whole seconds is "PT0S" for N = 0 and otherwise P,
\* <d>D iff d # 0, T iff h, m or s is non-zero, <h>H iff h # 0, <m>M iff
\* m # 0, <s>S iff s # 0, for d = N div 86400, h = (N mod 86400) div 3600,
\* m = (N mod 3600) div 60, s = N mod 60; the parts add up to N, h < 24,
\* m < 60, s < 60, and the text is never "P" alone nor ends in "T".
Thm_C2_Canonical ==
  op = "to_iso8601" =>
    LET N == dur.dur.secs
        d == N \div 86400
        h == (N % 86400) \div 3600
        m == (N % 3600) \div 60
        s == N % 60
    IN /\ N = 0 => out = <<"P", "T", "0", "S">>
       /\ N # 0 =>
            out = <<"P">>
                  \o (IF d # 0 THEN IntToStr(d) \o <<"D">> ELSE <<>>)
                  \o (IF h # 0 \/ m # 0 \/ s # 0 THEN <<"T">> ELSE <<>>)
                  \o (IF h # 0 THEN IntToStr(h) \o <<"H">> ELSE <<>>)
                  \o (IF m # 0 THEN IntToStr(m) \o <<"M">> ELSE <<>>)
                  \o (IF s # 0 THEN IntToStr(s) \o <<"S">> ELSE <<>>)
       /\ d * 86400 + h * 3600 + m * 60 + s = N
       /\ h < 24 /\ m < 60 /\ s < 60
       /\ out # <<"P">>
       /\ out[Len(out)] # "T"

\* 1000000 s is 11 d 13 h 46 min 40 s
Wit_C2_Canonical ==
  /\ op = "to_iso8601"
  /\ dur = Some(Dur(1000000, 0))
  /\ out = <<"P", "1", "1", "D", "T", "1", "3", "H", "4", "6", "M", "4", "0", "S">>

\* a composed text of the form [sign] P [<d>D] [T [<h>H] [<m>M] [<s>S]] with
\* unsigned whole fields and at least one component after a T
PlainForm(fm) ==
  /\ fm.pre = <<>> /\ fm.post = <<>>
  /\ fm.d.sgn = <<>> /\ fm.h.sgn = <<>> /\ fm.m.sgn = <<>> /\ fm.s.sgn = <<>>
  /\ fm.f = NoFrac
  /\ fm.t => (fm.h.some \/ fm.m.some \/ fm.s.some)

\* C3: for a text of that form from_iso8601 returns the duration of exactly
\* 86400*d + 3600*h + 60*m + s seconds (an absent field counting 0, fields
\* not limited to their usual range), whatever the overall sign before P.
Thm_C3_FieldSum ==
  (op = "from_iso8601_composed" /\ PlainForm(form)) =>
    out = Some(Dur(86400 * form.d.n + 3600 * form.h.n + 60 * form.m.n
                   + form.s.n, 0))

\* "-PT61M1S": an overall minus sign and a minute count above 59
Wit_C3_FieldSum ==
  /\ op = "from_iso8601_composed"
  /\ PlainForm(form)
  /\ text = <<"-", "P", "T", "6", "1", "M", "1", "S">>
  /\ out = Some(Dur(3661, 0))

\* the text is, in its entirety, what the pattern matches
WholeMatch(v) ==
  /\ pattern_captures(v).matched
  /\ pattern_captures(v).first = 1
  /\ pattern_captures(v).last = Len(v)

\* C4: from_iso8601 returns an absent result for every text that is not in
\* its entirety of the form [sign] P [<int>D] [T [<int>H] [<int>M]
\* [<number>S]].
Claim_C4_MalformedAbsent ==
  (op \in ParseOps /\ ~WholeMatch(text)) => out.kind = "None"

\* C5: from_iso8601 never panics: it returns a duration or an absent result.
Claim_C5_NoPanic == op \in ParseOps => out.kind # "Panic"

ConstructorOps ==
  {"from_hms_opt", "from_hms", "from_hms_milli_opt", "from_hms_milli",
   "from_hms_micro_opt", "from_hms_micro", "from_hms_nano_opt", "from_hms_nano"}

OptOps ==
  {"from_hms_opt", "from_hms_milli_opt", "from_hms_micro_opt", "from_hms_nano_opt"}

\* the range of the sub-second argument of a constructor, and its scale to
\* nanoseconds
SubBound(name) ==
  IF name \in {"from_hms_milli_opt", "from_hms_milli"} THEN 1000
  ELSE IF name \in {"from_hms_micro_opt", "from_hms_micro"} THEN 1000000
  ELSE IF name \in {"from_hms_nano_opt", "from_hms_nano"} THEN 1000000000
  ELSE 1

SubScale(name) ==
  IF name \in {"from_hms_milli_opt", "from_hms_milli"} THEN 1000000
  ELSE IF name \in {"from_hms_micro_opt", "from_hms_micro"} THEN 1000
  ELSE 1

ValidArgs(name, a) == a.m < 60 /\ a.s < 60 /\ a.sub < SubBound(name)

\* h * 3600 + m * 60 + s as a number: the high limb is not reduced
ExactSecs(a) ==
  LET t == a.h.lo * 3600 + a.m * 60 + a.s
  IN U32(a.h.hi * 3600 + (t \div Limb), t % Limb)

\* C6: for every u32 hour count, m and s below 60 and a sub-second count in
\* range, each constructor returns exactly h*3600 + m*60 + s whole seconds
\* and the sub-second count scaled to nanoseconds; the 32-bit arithmetic
\* neither overflows nor wraps.
Claim_C6_ExactSeconds ==
  (op \in ConstructorOps /\ ValidArgs(op, hms)) =>
    out = Some(Dur(ExactSecs(hms), hms.sub * SubScale(op)))

\* what the _opt variant of a constructor returns for the arguments a
OptVariant(name, a) ==
  IF name \in {"from_hms_opt", "from_hms"} THEN from_hms_opt(a.h, a.m, a.s)
  ELSE IF name \in {"from_hms_milli_opt", "from_hms_milli"}
    THEN from_hms_milli_opt(a.h, a.m, a.s, a.sub)
  ELSE IF name \in {"from_hms_micro_opt", "from_hms_micro"}
    THEN from_hms_micro_opt(a.h, a.m, a.s, a.sub)
  ELSE from_hms_nano_opt(a.h, a.m, a.s, a.sub)

\* C7: an _opt constructor is absent exactly when m >= 60, s >= 60 or the
\* sub-second count is out of range and present otherwise; the non-opt
\* constructor panics on exactly those inputs and otherwise returns a
\* duration, the one the _opt variant returns.
Claim_C7_AbsentOrPanic ==
  op \in ConstructorOps =>
    /\ op \in OptOps =>
         /\ out.kind = "None" <=> ~ValidArgs(op, hms)
         /\ ValidArgs(op, hms) => out.kind = "Some"
    /\ op \notin OptOps =>
         /\ out.kind = "Panic" <=> ~ValidArgs(op, hms)
         /\ ValidArgs(op, hms) =>
              /\ out.kind = "Some"
              /\ out = OptVariant(op, hms)

DirectDeserializers ==
  {"deserialize", "direct_serde::deserialize", "deserialize_as"}

DirectSerializers == {"serialize", "direct_serde::serialize", "serialize_as"}

\* C8: the three direct deserializers turn a text v into the duration
\* from_iso8601(v) when that is present and otherwise into an "invalid
\* value" error carrying v and the pattern "PdDThHmMsS", and into no other
\* failure; the three serializers turn a duration d into to_iso8601(d).
Claim_C8_DirectAdapter ==
  /\ (op \in DirectDeserializers /\ value.type = "str") =>
       IF from_iso8601(value.str).kind = "Some"
       THEN out = Ok(from_iso8601(value.str).dur)
       ELSE out = Err(invalid_value(value.str))
  /\ op \in DirectSerializers => out = Ok(Str(to_iso8601(dur.dur)))

\* C9: the optional adapter writes Some(d) as the text to_iso8601(d) and
\* None as null; it reads null as None, a text from_iso8601 accepts as Some
\* of its duration, and a text from_iso8601 rejects as an "invalid value"
\* error, never as None; so reading back what it wrote returns the value
\* written, for None and for Some of a whole number of seconds.
Thm_C9_OptionalAdapter ==
  /\ op = "opt::serialize" =>
       /\ dur.kind = "Some" => out = Ok(Str(to_iso8601(dur.dur)))
       /\ dur.kind = "None" => out = Ok(Null)
  /\ op = "opt::deserialize" =>
       /\ value = Null => out = Ok(None)
       /\ (value.type = "str" /\ from_iso8601(value.str).kind = "Some") =>
            out = Ok(Some(from_iso8601(value.str).dur))
       /\ (value.type = "str" /\ from_iso8601(value.str).kind = "None") =>
            /\ out = Err(invalid_value(value.str))
            /\ out # Ok(None)
  /\ op = "opt::round_trip" => out = Ok(dur)

\* the rejected text "PT" is an error, not None
Wit_C9_OptionalAdapter ==
  /\ op = "opt::deserialize"
  /\ value = Str(<<"P", "T">>)
  /\ out = Err(invalid_value(<<"P", "T">>))

\* the T marker matched with no H, M or S component after it
BareT(caps) == caps.g3.some /\ ~caps.g4.some /\ ~caps.g5.some /\ ~caps.g6.some

\* C10 as stated: among the texts the pattern matches, from_iso8601 is
\* absent for exactly those with a T marker, no D component before it and no
\* H, M or S component after it; a text without a T marker is not absent.
Claim_C10_BareTWithoutDays ==
  (op \in ParseOps /\ pattern_captures(text).matched) =>
    /\ out.kind = "None" <=>
         (BareT(pattern_captures(text)) /\ ~pattern_captures(text).g2.some)
    /\ ~pattern_captures(text).g3.some => out.kind # "None"

\* C10 as amended: among the texts the pattern matches, from_iso8601 is
\* absent for exactly those with a T marker and no H, M or S component
\* after it, whether or not a D component precedes the T; a text without a
\* T marker is not absent.
Thm_C10_BareT ==
  (op \in ParseOps /\ pattern_captures(text).matched) =>
    /\ out.kind = "None" <=> BareT(pattern_captures(text))
    /\ ~pattern_captures(text).g3.some => out.kind # "None"

\* "P1DT": a D component and then a bare T
Wit_C10_BareT ==
  /\ op = "from_iso8601"
  /\ text = <<"P", "1", "D", "T">>
  /\ out = None

====
